---- MODULE Spec2Model ----
(***************************************************************************)
(* Raycast commands that move the frontmost window to a display or to a    *)
(* virtual desktop.  Ten command variants are modelled, one per Command    *)
(* function of the repository:                                             *)
(*   display         src/src/move-to-display.tsx                           *)
(*   menuFallback    src/unnamed/part_000, lines 28-142                    *)
(*   ctrlOptNum      src/unnamed/part_000, lines 151-304                   *)
(*   menuSimple      src/unnamed/part_001, lines 8-153                     *)
(*   relative        src/unnamed/part_001, lines 162-329                   *)
(*   dock            src/unnamed/part_003, lines 8-210                     *)
(*   menuAssign      src/unnamed/part_003, lines 219-448                   *)
(*   missionControl  src/unnamed/part_003, lines 460-699                   *)
(*   ctrlArrow       src/unnamed/part_003, lines 708-870                   *)
(*   menu            src/unnamed/part_002, lines 8-171                     *)
(* A string of the program is a sequence of tokens (TLA+ strings); an      *)
(* argument string is a sequence of one-character tokens.                  *)
(***************************************************************************)
EXTENDS Integers, Sequences, FiniteSets, TLC

VARIABLES pc, variant, arg, desktopNum, env, toasts, mainWindowClosed,
          scriptRuns, script, events, winPos, mouse, outcome, jxa

vars == <<pc, variant, arg, desktopNum, env, toasts, mainWindowClosed,
          scriptRuns, script, events, winPos, mouse, outcome, jxa>>

(* ------------------------------ bounds -------------------------------- *)

MaxArgLen == 2

MaxScreens == 3

MaxDesktops == 3

(* --------------------------- argument strings ------------------------- *)

Digits == {"0", "1", "2", "3", "4", "5", "6", "7", "8", "9"}

DigitVal(c) ==
  CASE c = "0" -> 0 [] c = "1" -> 1 [] c = "2" -> 2 [] c = "3" -> 3
    [] c = "4" -> 4 [] c = "5" -> 5 [] c = "6" -> 6 [] c = "7" -> 7
    [] c = "8" -> 8 [] c = "9" -> 9

Chars == {"0", "1", "2", "5", "-", "x"}

RECURSIVE StringsUpTo(_)
StringsUpTo(n) ==
  IF n = 0 THEN {<<>>}
  ELSE LET shorter == StringsUpTo(n - 1)
       IN shorter \cup {Append(s, c) : s \in {t \in shorter : Len(t) = n - 1}, c \in Chars}

Args == StringsUpTo(MaxArgLen)

(* parseInt(string, 10): leading white space is skipped, one sign is read, *)
(* then the longest prefix of decimal digits; NaN when there is no digit.  *)
RECURSIVE SkipWhite(_)
SkipWhite(s) ==
  IF s # <<>> /\ Head(s) = " " THEN SkipWhite(Tail(s)) ELSE s

RECURSIVE DigitPrefix(_)
DigitPrefix(s) ==
  IF s # <<>> /\ Head(s) \in Digits
  THEN <<Head(s)>> \o DigitPrefix(Tail(s))
  ELSE <<>>

RECURSIVE DecValue(_, _)
DecValue(ds, acc) ==
  IF ds = <<>> THEN acc ELSE DecValue(Tail(ds), acc * 10 + DigitVal(Head(ds)))

parseInt(s) ==
  LET t == SkipWhite(s)
      signed == t # <<>> /\ Head(t) \in {"+", "-"}
      neg == t # <<>> /\ Head(t) = "-"
      ds == DigitPrefix(IF signed THEN Tail(t) ELSE t)
  IN IF ds = <<>>
     THEN [nan |-> TRUE, val |-> 0]
     ELSE [nan |-> FALSE, val |-> IF neg THEN 0 - DecValue(ds, 0) ELSE DecValue(ds, 0)]

(* isNaN(n) || n < 1 *)
InvalidNumberMutant(n) == n.nan \/ n.val < 0

InvalidNumber(n) == n.nan \/ n.val < 1

(* `${n}` of a number the validation accepted *)
Str(n) == ToString(n)

(* ------------------------------- variants ----------------------------- *)

Variants == {"display", "menuFallback", "ctrlOptNum", "menuSimple", "relative",
             "dock", "menuAssign", "missionControl", "ctrlArrow", "menu"}

(* the variants that await closeMainWindow() before the try block *)
ClosesMainWindow(v) ==
  v \in {"ctrlOptNum", "menuSimple", "relative", "dock", "menuAssign",
         "ctrlArrow", "menu"}

DesktopVariants == Variants \ {"display"}

Toast(style, title, message) ==
  [style |-> style, title |-> title, message |-> message]

InvalidToast(v) ==
  IF v = "display"
  THEN Toast("Failure", "Invalid Display Number",
             <<"Please enter a valid display number (1, 2, 3, etc.)">>)
  ELSE Toast("Failure", "Invalid Desktop Number",
             <<"Please enter a valid desktop number (1, 2, 3, etc.)">>)

(* the variants that show the Animated toast before the script is built *)
ShowsProgress(v) == v # "menuFallback"

ProgressToast(v, n) ==
  IF v = "display"
  THEN Toast("Animated", "Moving Window...", <<"Moving to Display ", Str(n)>>)
  ELSE Toast("Animated", "Moving Window", <<"Moving to Desktop ", Str(n), "...">>)

(* ----------------------------- environment ---------------------------- *)

(* NSScreen frames: origin at the bottom-left corner of the primary        *)
(* screen, y growing upwards.  Item 1 of the screen list is the primary.   *)
Frame(x, y, w, h) == [x |-> x, y |-> y, w |-> w, h |-> h]

ScreenPool ==
  << Frame(0, 0, 1440, 900),        \* primary
     Frame(1440, 0, 1440, 900),     \* to the right, same size
     Frame(0, 900, 1920, 1080),     \* above the primary
     Frame(0 - 1024, 132, 1024, 768),  \* to the left, tops aligned
     Frame(2880, 0, 1280, 720) >>   \* further right, bottoms aligned

Layouts ==
  {SubSeq(ScreenPool, 1, n) : n \in 1..MaxScreens}
    \cup {<<ScreenPool[1], ScreenPool[j]>> : j \in 2..MaxScreens}

WindowSizes == {[w |-> 800, h |-> 600], [w |-> 1400, h |-> 850], [w |-> 2000, h |-> 1200]}

(* position of window 1 before the command runs (System Events            *)
(* coordinates: origin at the top-left corner of the primary screen, y     *)
(* growing downwards)                                                      *)
StartPos == [x |-> 200, y |-> 150]

(* NSEvent.mouseLocation before the command runs: same origin as the       *)
(* NSScreen frames; fx, fy are the fractional part in tenths of a point    *)
StartMice == {[x |-> 300, y |-> 200, fx |-> 0, fy |-> 0],
              [x |-> 640, y |-> 1300, fx |-> 5, fy |-> 5]}

MenuKinds == {"none", "plain", "direct", "directDesktop", "directMoveTo",
              "moveToDesktop", "moveToNumber", "assignToDesktop", "assignToNumber",
              "assignAndMoveTo"}

DockKinds == {"notInDock", "noOptions", "noAssignTo", "assignStandard", "assignDesktops"}

DefaultEnv ==
  [hasApp |-> TRUE, hasWindow |-> TRUE, screens |-> <<ScreenPool[1]>>, mainScreen |-> 1,
   winSize |-> [w |-> 800, h |-> 600], movable |-> TRUE, desktops |-> 1, current |-> 1,
   detect |-> TRUE, menuKind |-> "none", dockKind |-> "notInDock", thumbnail |-> TRUE,
   mouse0 |-> [x |-> 300, y |-> 200, fx |-> 0, fy |-> 0]]

MenuVariants == {"menu", "menuSimple", "menuAssign", "menuFallback"}

(* the environments a variant's script can meet; fields the script never   *)
(* reads keep their default                                                *)
EnvOf(v) ==
  CASE v = "display" ->
         {[DefaultEnv EXCEPT !.hasWindow = hw, !.screens = l, !.winSize = sz, !.movable = mv] :
            hw \in BOOLEAN, l \in Layouts, sz \in WindowSizes, mv \in BOOLEAN}
    [] v \in MenuVariants ->
         {[DefaultEnv EXCEPT !.hasWindow = hw, !.desktops = k, !.menuKind = mk] :
            hw \in BOOLEAN, k \in 1..MaxDesktops, mk \in MenuKinds}
    [] v = "dock" ->
         {[DefaultEnv EXCEPT !.hasWindow = hw, !.desktops = k, !.dockKind = dk] :
            hw \in BOOLEAN, k \in 1..MaxDesktops, dk \in DockKinds}
    [] v \in {"ctrlOptNum", "ctrlArrow"} ->
         {[DefaultEnv EXCEPT !.hasWindow = hw, !.desktops = k, !.current = c] :
            hw \in BOOLEAN, k \in 1..MaxDesktops, c \in 1..MaxDesktops}
    [] v = "relative" ->
         {[DefaultEnv EXCEPT !.hasWindow = hw, !.desktops = k, !.current = c, !.detect = d] :
            hw \in BOOLEAN, k \in 1..MaxDesktops, c \in 1..MaxDesktops, d \in BOOLEAN}
    [] v = "missionControl" ->
         {[DefaultEnv EXCEPT !.hasApp = FALSE, !.hasWindow = FALSE],
          [DefaultEnv EXCEPT !.hasWindow = FALSE]}
         \cup {[DefaultEnv EXCEPT !.desktops = k, !.thumbnail = th, !.screens = l,
                                  !.mainScreen = ms, !.mouse0 = m] :
                 k \in 1..MaxDesktops, th \in BOOLEAN, l \in Layouts,
                 ms \in 1..MaxScreens, m \in StartMice}

(* whether a point given in NSScreen coordinates lies on a screen *)
OnFrame(p, f) == p.x >= f.x /\ p.x < f.x + f.w /\ p.y >= f.y /\ p.y < f.y + f.h

EnvOk(e) ==
  /\ e.current <= e.desktops
  /\ e.mainScreen <= Len(e.screens)
  /\ \E i \in 1..Len(e.screens) : OnFrame(e.mouse0, e.screens[i])

Range(s) == {s[i] : i \in 1..Len(s)}

(* the frontmost application's Window menu: its items and the items of its *)
(* "Move to" and "Assign To" submenus                                      *)
DesktopItems(prefix, k) == [i \in 1..k |-> prefix \o Str(i)]

WindowMenu(e) ==
  LET base == {"Minimize", "Zoom"}
      k == e.desktops
      mk == e.menuKind
  IN [exists |-> mk # "none",
      items |-> CASE mk \in {"none", "plain"} -> base
                  [] mk = "direct" -> base \cup Range(DesktopItems("Move Window to Desktop ", k))
                  [] mk = "directDesktop" -> base \cup Range(DesktopItems("Desktop ", k))
                  [] mk = "directMoveTo" -> base \cup Range(DesktopItems("Move to Desktop ", k))
                  [] mk \in {"moveToDesktop", "moveToNumber"} -> base \cup {"Move to"}
                  [] mk \in {"assignToDesktop", "assignToNumber"} -> base \cup {"Assign To"}
                  [] mk = "assignAndMoveTo" -> base \cup {"Assign To", "Move to"},
      moveTo |-> CASE mk \in {"moveToDesktop", "assignAndMoveTo"} -> DesktopItems("Desktop ", k)
                   [] mk = "moveToNumber" -> DesktopItems("", k)
                   [] OTHER -> <<>>,
      assignTo |-> CASE mk = "assignToDesktop" -> DesktopItems("Desktop ", k)
                     [] mk = "assignToNumber" -> DesktopItems("", k)
                     [] mk = "assignAndMoveTo" -> <<"All Desktops", "This Desktop", "None">>
                     [] OTHER -> <<>>]

(* the Dock icon's context menu *)
DockMenu(e) ==
  LET dk == e.dockKind
  IN [inDock |-> dk # "notInDock",
      hasOptions |-> dk \in {"noAssignTo", "assignStandard", "assignDesktops"},
      hasAssignTo |-> dk \in {"assignStandard", "assignDesktops"},
      assignTo |-> IF dk = "assignDesktops"
                   THEN Range(DesktopItems("Desktop ", e.desktops))
                   ELSE {"All Desktops", "This Desktop", "None"}]

(* --------------------------- automation events ------------------------ *)

Click(name) ==
  [type |-> "click", name |-> name, code |-> 0, mods |-> {}, times |-> 1, x |-> 0, y |-> 0]

Key(code, mods, times) ==
  [type |-> "key", name |-> "", code |-> code, mods |-> mods, times |-> times,
   x |-> 0, y |-> 0]

SetPosition(x, y) ==
  [type |-> "setPosition", name |-> "window 1", code |-> 0, mods |-> {}, times |-> 1,
   x |-> x, y |-> y]

Ret(evs, result) == [events |-> evs, result |-> result]

Escape == Key(53, {}, 1)

(* ------------------------- the automation scripts --------------------- *)
(* Each script is a function of the interpolated number and of what it     *)
(* finds: the automation events it performs, in order, and the string it   *)
(* returns.                                                                *)

(* move-to-display: the AppleScript of lines 33-100 *)
(* the offset is never reduced for a large window *)
OffsetForUnadjusted(windowExtent, targetExtent) == 100

OffsetFor(windowExtent, targetExtent) ==
  IF windowExtent > targetExtent - 100 THEN 50 ELSE 100

(* the script without its range check of lines 42-45 *)
DisplayScriptNoRangeCheck(n, e) ==
  LET target == e.screens[IF n > Len(e.screens) THEN Len(e.screens) ELSE n]
      offsetX == OffsetFor(e.winSize.w, target.w)
      offsetY == OffsetFor(e.winSize.h, target.h)
  IN IF ~e.hasWindow
     THEN Ret(<<>>, <<"ERROR", "|", "No active window found in ", "frontApp">>)
     ELSE IF ~e.movable
     THEN Ret(<<>>, <<"ERROR", "|", "Failed to move window: ", "errMsg">>)
     ELSE Ret(<<SetPosition(target.x + offsetX, target.y + offsetY)>>,
              <<"SUCCESS", "|", "Window moved to Display ", Str(n)>>)

DisplayScript(n, e) ==
  LET screenCount == Len(e.screens)
  IN IF n > screenCount
     THEN Ret(<<>>, <<"ERROR", "|", "Display ", Str(n), " not found. Available displays: 1 to ",
                      Str(screenCount)>>)
     ELSE LET target == e.screens[n]
              offsetX == OffsetFor(e.winSize.w, target.w)
              offsetY == OffsetFor(e.winSize.h, target.h)
          IN IF ~e.hasWindow
             THEN Ret(<<>>, <<"ERROR", "|", "No active window found in ", "frontApp">>)
             ELSE IF ~e.movable
             THEN Ret(<<>>, <<"ERROR", "|", "Failed to move window: ", "errMsg">>)
             ELSE Ret(<<SetPosition(target.x + offsetX, target.y + offsetY)>>,
                      <<"SUCCESS", "|", "Window moved to Display ", Str(n)>>)

(* Window menu, part_002 lines 36-100 *)
MenuScript(n, e) ==
  LET m == WindowMenu(e)
      t == Str(n)
      open == <<Click("Window")>>
  IN IF ~e.hasWindow THEN Ret(<<>>, <<"error:no_window">>)
     ELSE IF ~m.exists THEN Ret(<<>>, <<"error:no_window_menu">>)
     ELSE IF ("Move Window to Desktop " \o t) \in m.items
     THEN Ret(open \o <<Click("Move Window to Desktop " \o t)>>, <<"success">>)
     ELSE IF "Move to" \in m.items
     THEN IF ("Desktop " \o t) \in Range(m.moveTo)
          THEN Ret(open \o <<Click("Move to"), Click("Desktop " \o t)>>, <<"success">>)
          ELSE IF t \in Range(m.moveTo)
          THEN Ret(open \o <<Click("Move to"), Click(t)>>, <<"success">>)
          ELSE Ret(open \o <<Click("Move to"), Escape>>, <<"error:desktop_not_in_menu">>)
     ELSE Ret(open \o <<Escape>>, <<"error:no_move_option">>)

(* Window menu with "Assign To", part_003 lines 247-340 *)
MenuAssignScript(n, e) ==
  LET m == WindowMenu(e)
      t == Str(n)
      open == <<Click("Window")>>
      Sub(name, items) ==
        IF ("Desktop " \o t) \in Range(items)
        THEN Ret(open \o <<Click(name), Click("Desktop " \o t)>>, <<"success">>)
        ELSE IF t \in Range(items)
        THEN Ret(open \o <<Click(name), Click(t)>>, <<"success">>)
        ELSE Ret(open \o <<Click(name), Escape>>, <<"error:desktop_not_in_menu">>)
  IN IF ~e.hasWindow THEN Ret(<<>>, <<"error:no_window">>)
     ELSE IF ~m.exists THEN Ret(<<>>, <<"error:no_window_menu">>)
     ELSE IF ("Move Window to Desktop " \o t) \in m.items
     THEN Ret(open \o <<Click("Move Window to Desktop " \o t)>>, <<"success">>)
     ELSE IF "Assign To" \in m.items THEN Sub("Assign To", m.assignTo)
     ELSE IF "Move to" \in m.items THEN Sub("Move to", m.moveTo)
     ELSE Ret(open \o <<Escape>>, <<"error:no_move_option", "|", "menuItemsList">>)

(* "ultra-simple" Window menu, part_001 lines 35-91 *)
MenuSimpleScript(n, e) ==
  LET m == WindowMenu(e)
      t == Str(n)
      open == <<Click("Window")>>
  IN IF ~e.hasWindow THEN Ret(<<>>, <<"error:no_window">>)
     ELSE IF ~m.exists THEN Ret(<<>>, <<"error:no_menu">>)
     ELSE IF ("Move to Desktop " \o t) \in m.items
     THEN Ret(open \o <<Click("Move to Desktop " \o t)>>, <<"success">>)
     ELSE IF ("Desktop " \o t) \in m.items
     THEN Ret(open \o <<Click("Desktop " \o t)>>, <<"success">>)
     ELSE IF "Move to" \in m.items
     THEN IF ("Desktop " \o t) \in Range(m.moveTo)
          THEN Ret(open \o <<Click("Move to"), Click("Desktop " \o t)>>, <<"success">>)
          ELSE IF t \in Range(m.moveTo)
          THEN Ret(open \o <<Click("Move to"), Click(t)>>, <<"success">>)
          ELSE Ret(open \o <<Click("Move to"), Escape>>, <<"error:menu_not_found">>)
     ELSE Ret(open \o <<Escape>>, <<"error:menu_not_found">>)

(* Dock context menu, part_003 lines 36-104 *)
DockScript(n, e) ==
  LET d == DockMenu(e)
      t == Str(n)
      desktopNames == <<"Desktop " \o t, "Desktop on Display " \o t, t>>
      found == {i \in 1..Len(desktopNames) : desktopNames[i] \in d.assignTo}
      first == CHOOSE i \in found : \A j \in found : i <= j
  IN IF ~e.hasWindow THEN Ret(<<>>, <<"error:no_window">>)
     ELSE IF ~d.inDock THEN Ret(<<>>, <<"error:dock_error", "|", "errMsg">>)
     ELSE IF ~d.hasOptions THEN Ret(<<Click("AXShowMenu"), Escape>>, <<"error:no_options">>)
     ELSE IF ~d.hasAssignTo
     THEN Ret(<<Click("AXShowMenu"), Click("Options"), Escape>>, <<"error:no_assign_to">>)
     ELSE IF found # {}
     THEN Ret(<<Click("AXShowMenu"), Click("Options"), Click("Assign To"),
                Click(desktopNames[first])>>, <<"success">>)
     ELSE Ret(<<Click("AXShowMenu"), Click("Options"), Click("Assign To"), Escape>>,
              <<"error:desktop_not_found">>)

(* key codes of the digit keys 1..9, part_000 line 204 *)
keyCodes == <<18, 19, 20, 21, 23, 22, 26, 28, 25>>

(* the script without its range check of line 206 *)
CtrlOptNumScriptUnchecked(n, e) ==
  IF ~e.hasWindow THEN Ret(<<>>, <<"error:no_window">>)
  ELSE Ret(<<Key(keyCodes[((n - 1) % 9) + 1], {"control", "option"}, 1)>>, <<"success">>)

(* Control+Option+number, part_000 lines 179-220 *)
CtrlOptNumScript(n, e) ==
  IF ~e.hasWindow THEN Ret(<<>>, <<"error:no_window">>)
  ELSE IF n >= 1 /\ n <= 9
  THEN Ret(<<Key(keyCodes[n], {"control", "option"}, 1)>>, <<"success">>)
  ELSE Ret(<<>>, <<"error:invalid_desktop">>)

(* the script that always takes the current desktop to be 1 *)
RelativeScriptFromFirst(n, e) ==
  LET moveCount == n - 1
  IN IF ~e.hasWindow THEN Ret(<<>>, <<"error:no_window">>)
     ELSE IF moveCount > 0
     THEN Ret(<<Key(124, {"control", "shift"}, moveCount)>>, <<"success">>)
     ELSE Ret(<<>>, <<"success">>)

(* relative move, part_001 lines 190-255 *)
RelativeScript(n, e) ==
  LET currentDesktopNum == IF e.detect THEN e.current ELSE 1
      moveCount == n - currentDesktopNum
  IN IF ~e.hasWindow THEN Ret(<<>>, <<"error:no_window">>)
     ELSE IF moveCount > 0
     THEN Ret(<<Key(124, {"control", "shift"}, moveCount)>>, <<"success">>)
     ELSE IF moveCount < 0
     THEN Ret(<<Key(123, {"control", "shift"}, 0 - moveCount)>>, <<"success">>)
     ELSE Ret(<<>>, <<"success">>)

(* Control+arrow, part_003 lines 736-783 *)
(* the script without its window check of lines 742-745 *)
CtrlArrowScriptNoWindowCheck(n, e) ==
  IF n > 1
  THEN Ret(<<Key(123, {"control"}, 10), Key(124, {"control"}, n - 1)>>, <<"success">>)
  ELSE Ret(<<Key(123, {"control"}, 10)>>, <<"success">>)

CtrlArrowScript(n, e) ==
  IF ~e.hasWindow THEN Ret(<<>>, <<"error:no_window">>)
  ELSE IF n > 1
  THEN Ret(<<Key(123, {"control"}, 10), Key(124, {"control"}, n - 1)>>, <<"success">>)
  ELSE Ret(<<Key(123, {"control"}, 10)>>, <<"success">>)

(* Window menu with keyboard fallback, part_000 lines 46-117.  The template *)
(* interpolates `18 + ${desktopNum - 1}` for the fallback's key code.       *)
FallbackKeyCode(n) == 18 + (n - 1)

(* lines 65-91: the two inner try blocks; each one catches every error and  *)
(* returns, so nothing is raised to the outer handler of line 92            *)
MenuAttempt(n, e) ==
  LET m == WindowMenu(e)
      t == Str(n)
      Returned(evs, result) == [raised |-> FALSE, events |-> evs, result |-> result]
  IN IF ~m.exists
     THEN Returned(<<>>, <<"Error:", " ", "This application does not support moving windows to desktops via Window menu">>)
     ELSE IF "Move to" \notin m.items
     THEN Returned(<<>>, <<"Error:", " ", "Could not access Move to menu - ", "errMsg">>)
     ELSE IF n > Len(m.moveTo)
     THEN Returned(<<>>, <<"Error:", " ", "Desktop ", t, " not found. Available desktops: 1 to ",
                           Str(Len(m.moveTo))>>)
     ELSE Returned(<<Click(m.moveTo[n])>>, <<"Success:", " ", "Window moved to Desktop ", t>>)

MenuFallbackScript(n, keyCode, e) ==
  IF ~e.hasWindow THEN Ret(<<>>, <<"Error:", " ", "No active window found">>)
  ELSE LET a == MenuAttempt(n, e)
       IN IF a.raised
          THEN Ret(a.events \o <<Key(keyCode, {"control"}, 1)>>,
                   <<"Success:", " ", "Switched to Desktop ", Str(n), " with window">>)
          ELSE Ret(a.events, a.result)

(* the text of the argument as it was typed *)
RECURSIVE Concat(_)
Concat(cs) == IF cs = <<>> THEN "" ELSE Head(cs) \o Concat(Tail(cs))

(* a template that interpolated the argument itself, not the parsed number *)
BuildScriptFromArgument(v, n) ==
  [number |-> n, literal |-> Concat(arg),
   interpolated |-> IF v = "menuFallback" THEN <<Concat(arg), Str(n - 1)>>
                    ELSE <<Concat(arg)>>,
   fallbackKey |-> IF v = "menuFallback" THEN FallbackKeyCode(n) ELSE 0]

(* the values the command interpolates into its script template: the       *)
(* number `${desktopNum}` and, in the fallback variant's key code           *)
(* expression, `${desktopNum - 1}`                                          *)
BuildScript(v, n) ==
  [number |-> n, literal |-> Str(n),
   interpolated |-> IF v = "menuFallback" THEN <<Str(n), Str(n - 1)>> ELSE <<Str(n)>>,
   fallbackKey |-> IF v = "menuFallback" THEN FallbackKeyCode(n) ELSE 0]

NoScript == [number |-> 0, literal |-> "", interpolated |-> <<>>, fallbackKey |-> 0]

Script(v, sc, e) ==
  CASE v = "display" -> DisplayScript(sc.number, e)
    [] v = "menuFallback" -> MenuFallbackScript(sc.number, sc.fallbackKey, e)
    [] v = "ctrlOptNum" -> CtrlOptNumScript(sc.number, e)
    [] v = "menuSimple" -> MenuSimpleScript(sc.number, e)
    [] v = "relative" -> RelativeScript(sc.number, e)
    [] v = "dock" -> DockScript(sc.number, e)
    [] v = "menuAssign" -> MenuAssignScript(sc.number, e)
    [] v = "ctrlArrow" -> CtrlArrowScript(sc.number, e)
    [] v = "menu" -> MenuScript(sc.number, e)

(* what a script killed or failing part-way has done: a prefix of its       *)
(* events; a repeated key press is cut after its first or before its last   *)
(* repetition                                                               *)
Prefixes(evs) ==
  {SubSeq(evs, 1, i) : i \in 0..Len(evs)}
    \cup UNION {{Append(SubSeq(evs, 1, i - 1), [evs[i] EXCEPT !.times = k]) :
                   k \in {1, evs[i].times - 1} \cap (1..(evs[i].times - 1))} :
                 i \in 1..Len(evs)}

(* ------------------------------ string helpers ------------------------ *)

(* String.prototype.includes, on tokens *)
Includes(s, phrase) == \E i \in 1..Len(s) : s[i] = phrase

(* String.prototype.toLowerCase, on the tokens that have capitals the       *)
(* commands look for                                                        *)
LowerToken(t) ==
  CASE t = "Not authorized" -> "not authorized"
    [] t = "Accessibility" -> "accessibility"
    [] t = "Connection is invalid" -> "connection is invalid"
    [] OTHER -> t

ToLowerCase(s) == [i \in 1..Len(s) |-> LowerToken(s[i])]

IsSpace(t) == t \in {" ", "\n"}

(* String.prototype.trim *)
RECURSIVE TrimLeft(_)
TrimLeft(s) == IF s # <<>> /\ IsSpace(Head(s)) THEN TrimLeft(Tail(s)) ELSE s

RECURSIVE TrimRight(_)
TrimRight(s) ==
  IF s # <<>> /\ IsSpace(s[Len(s)]) THEN TrimRight(SubSeq(s, 1, Len(s) - 1)) ELSE s

Trim(s) == TrimRight(TrimLeft(s))

(* String.prototype.split("|"): the parts between the bars *)
RECURSIVE SplitBar(_, _)
SplitBar(s, part) ==
  IF s = <<>> THEN <<part>>
  ELSE IF Head(s) = "|" THEN <<part>> \o SplitBar(Tail(s), <<>>)
  ELSE SplitBar(Tail(s), Append(part, Head(s)))

(* String.prototype.replace("Error: ", ""): the first occurrence only *)
RECURSIVE ReplaceErrorPrefix(_)
ReplaceErrorPrefix(s) ==
  IF Len(s) < 2 THEN s
  ELSE IF s[1] = "Error:" /\ s[2] = " " THEN SubSeq(s, 3, Len(s))
  ELSE <<Head(s)>> \o ReplaceErrorPrefix(Tail(s))

(* what osascript prints for a returned string *)
Stdout(result) == result \o <<"\n">>

(* ------------------------ failures of the script run ------------------ *)

Faults == {"notAuthorized", "assistive", "connection", "other", "timeout"}

(* the message of the error execSync / runAppleScript throws *)
ErrorText(fault) ==
  CASE fault = "notAuthorized" ->
         <<"Command failed: osascript", "\n", "execution error: ", "Not authorized",
           " to send Apple events to System Events. (-1743)">>
    [] fault = "assistive" ->
         <<"Command failed: osascript", "\n", "execution error: System Events got an error: osascript is ",
           "not allowed assistive", " access. (-1719)">>
    [] fault = "connection" ->
         <<"Command failed: osascript", "\n", "execution error: ", "Connection is invalid",
           ". (-609)">>
    [] fault = "other" ->
         <<"Command failed: osascript", "\n", "execution error: Can't get window 1. (-1728)">>
    [] fault = "timeout" -> <<"spawnSync osascript ", "ETIMEDOUT">>

(* ------------------------------ the toasts ---------------------------- *)

ThreeWayVariants == {"ctrlOptNum", "relative", "dock", "menuAssign", "ctrlArrow"}

(* the toast of the catch block, from the message of the error caught *)
CatchToast(v, n, errorMessage) ==
  LET lower == ToLowerCase(errorMessage)
      t == Str(n)
  IN CASE v \in {"display", "menuFallback"} ->
            Toast("Failure", "Failed to Move Window", errorMessage)
       [] v \in {"menu", "menuSimple"} ->
            IF Includes(lower, "accessibility") \/ Includes(lower, "not authorized")
            THEN Toast("Failure", "Move Failed",
                       <<"Accessibility permission required.", "\n",
                         "Enable for Raycast: System Settings -> Privacy & Security -> Accessibility -> Add Raycast">>)
            ELSE Toast("Failure", "Move Failed", errorMessage)
       [] v \in ThreeWayVariants ->
            IF \/ Includes(lower, "accessibility")
               \/ Includes(lower, "not authorized")
               \/ Includes(lower, "not allowed assistive")
            THEN Toast("Failure", "Accessibility Permission Required",
                       <<"Raycast needs Accessibility permission to move windows.", "\n",
                         "Enable it: System Settings -> Privacy & Security -> Accessibility -> Enable Raycast">>)
            ELSE IF Includes(lower, "connection is invalid")
            THEN Toast("Failure", "App Not Available",
                       <<"The frontmost app is not available or has no windows.">>)
            ELSE Toast("Failure", "Move Failed",
                       <<"Error: ">> \o errorMessage
                         \o <<"\n", "Trying to move window to Desktop ", t, ". Make sure:">>)
       [] v = "missionControl" ->
            IF Includes(errorMessage, "not found")
            THEN Toast("Failure", "Failed to Move Window",
                       <<"Desktop ", t, " ", "not found", ". Please ensure you have ", t,
                         " or more virtual desktops configured in Mission Control (System Settings -> Desktop & Dock -> Mission Control).">>)
            ELSE IF Includes(errorMessage, "No active window")
            THEN Toast("Failure", "Failed to Move Window", <<"No active window", " found to move.">>)
            ELSE Toast("Failure", "Failed to Move Window", errorMessage)

MovedToast(n) == Toast("Success", "Window Moved", <<"Moved to Desktop ", Str(n)>>)

NoWindowToast ==
  Toast("Failure", "No Window Found", <<"The frontmost app has no windows to move">>)

(* the toast shown for the string the script run returned *)
ResultToast(v, n, result) ==
  LET t == Str(n)
  IN CASE v = "display" ->
            LET parts == SplitBar(result, <<>>)
                status == parts[1]
                message == IF Len(parts) >= 2 THEN parts[2] ELSE <<>>
            IN IF status = <<"ERROR">>
               THEN Toast("Failure", "Failed to Move Window",
                          IF message # <<>> THEN message ELSE <<"Unknown error occurred">>)
               ELSE Toast("Success", "Window Moved", <<"Successfully moved to Display ", t>>)
       [] v = "menuFallback" ->
            IF Includes(result, "Error:")
            THEN Toast("Failure", "Failed to Move Window", ReplaceErrorPrefix(result))
            ELSE MovedToast(n)
       [] v = "missionControl" ->
            Toast("Success", "Window Moved", <<"Successfully moved to Desktop ", t>>)
       [] v \in {"menu", "menuAssign"} ->
            IF result = <<"success">> THEN MovedToast(n)
            ELSE IF result = <<"error:no_window">> THEN NoWindowToast
            ELSE IF result = <<"error:no_window_menu">>
            THEN Toast("Failure", "No Window Menu",
                       <<"This app doesn't have a Window menu.", "\n", "Try manually:",
                         " Drag the window to Desktop ", t, " at the top">>)
            ELSE IF result = <<"error:desktop_not_in_menu">>
            THEN Toast("Failure", "Desktop Not Available",
                       <<"Desktop ", t, " is not in the Window menu.", "\n", "To fix:",
                         " Create Desktop ", t>>)
            ELSE IF v = "menu" /\ result = <<"error:no_move_option">>
            THEN Toast("Failure", "Move Option Not Found",
                       <<"This app's Window menu doesn't have \"Move to\" option.", "\n",
                         "Try manually: Drag window to Desktop ", t>>)
            ELSE IF v = "menuAssign" /\ result # <<>> /\ result[1] = "error:no_move_option"
            THEN LET parts == SplitBar(result, <<>>)
                 IN Toast("Failure", "Move Option Not Found",
                          <<"Window menu items found: ">>
                            \o (IF Len(parts) > 1 THEN parts[2] ELSE <<"unknown">>))
            ELSE IF v = "menu" THEN CatchToast(v, n, result)
            ELSE Toast("Failure", "Unknown Error", <<"AppleScript returned: ">> \o result)
       [] v = "menuSimple" ->
            IF result = <<"success">> THEN MovedToast(n)
            ELSE IF result = <<"error:no_window">>
            THEN Toast("Failure", "No Window Found", <<"Please focus a window first and try again">>)
            ELSE IF result = <<"error:no_menu">>
            THEN Toast("Failure", "Window Menu Not Available",
                       <<"This app doesn't have a Window menu.", "\n",
                         "Alternative: Manually drag the window to Desktop ", t>>)
            ELSE IF result = <<"error:menu_not_found">>
            THEN Toast("Failure", "Desktop Not in Menu",
                       <<"Desktop ", t, " not found in Window menu.", "\n", "Possible reasons:",
                         " You may not have ", t, " desktops configured">>)
            ELSE CatchToast(v, n, result)
       [] v = "dock" ->
            IF result = <<"success">> THEN MovedToast(n)
            ELSE IF result = <<"error:no_window">> THEN NoWindowToast
            ELSE IF result = <<"error:desktop_not_found">>
            THEN Toast("Failure", "Desktop Not Found",
                       <<"Desktop ", t, " not found in Dock menu.", "\n", "Create Desktop ", t>>)
            ELSE IF result = <<"error:no_assign_to">>
            THEN Toast("Failure", "Assign To Not Available",
                       <<"\"Assign To\" option not found in Dock menu.">>)
            ELSE IF result # <<>> /\ result[1] = "error:dock_error"
            THEN LET parts == SplitBar(result, <<>>)
                 IN Toast("Failure", "Dock Access Error",
                          <<"Could not access Dock menu: ">>
                            \o (IF Len(parts) > 1 THEN parts[2] ELSE <<"unknown">>))
            ELSE Toast("Failure", "Move Failed",
                       <<"Could not move window to Desktop ", t, ".", "\n", "Error: ">> \o result)
       [] v \in {"ctrlOptNum", "ctrlArrow"} ->
            IF result = <<"success">> THEN MovedToast(n)
            ELSE IF result = <<"error:no_window">> THEN NoWindowToast
            ELSE IF result = <<"error:invalid_desktop">>
            THEN Toast("Failure", "Invalid Desktop Number",
                       <<"Desktop number must be between 1 and 9">>)
            ELSE Toast("Failure", "Move Failed - Setup Required",
                       <<"Enable Mission Control keyboard shortcuts:", "\n",
                         "Then create Desktop ", t, " if it doesn't exist">>)
       [] v = "relative" ->
            IF result = <<"success">> THEN MovedToast(n)
            ELSE IF result = <<"error:no_window">> THEN NoWindowToast
            ELSE Toast("Failure", "Move Failed",
                       <<"Could not move window to Desktop ", t, ".", "\n", "Error: ">> \o result)

(* ------------------ the cursor helper of the JXA script ---------------- *)

(* Cursor.position, part_003 lines 517-524: the mouse location truncated,   *)
(* its y measured down from the height of NSScreen.mainScreen               *)
CursorPosition(m, e) ==
  [x |-> m.x, y |-> e.screens[e.mainScreen].h - m.y]

(* where a mouse event posted at p leaves the mouse: event coordinates have *)
(* their origin at the top-left corner of the primary screen                *)
PostMouseEvent(p, e) ==
  [x |-> p.x, y |-> e.screens[1].h - p.y, fx |-> 0, fy |-> 0]

MouseEvent(type, p) ==
  [type |-> type, name |-> "", code |-> 0, mods |-> {}, times |-> 1, x |-> p.x, y |-> p.y]

Point(x, y) == [x |-> x, y |-> y]

(* positions System Events reports for the Mission Control elements *)
DesktopButtonPosition(i) == Point(400 + 160 * i, 30)

ThumbnailPosition == Point(500, 400)

NoJxa ==
  [step |-> "idle", restoreCursor |-> Point(0, 0), desktop |-> Point(0, 0),
   window |-> Point(0, 0), error |-> <<>>]

(* the position the last setPosition event gave window 1 *)
RECURSIVE ApplyEvents(_, _)
ApplyEvents(pos, evs) ==
  IF evs = <<>> THEN pos
  ELSE ApplyEvents(IF Head(evs).type = "setPosition"
                   THEN Point(Head(evs).x, Head(evs).y) ELSE pos, Tail(evs))

(* execSync(...).trim() in the osascript variants; runAppleScript strips    *)
(* the final newline                                                        *)
Output(v, result) ==
  IF v \in {"display", "menuFallback"}
  THEN SubSeq(Stdout(result), 1, Len(result))
  ELSE Trim(Stdout(result))

(* ------------------------------- actions ------------------------------ *)

Init ==
  /\ pc = "idle"
  /\ variant = "none"
  /\ arg = <<>>
  /\ desktopNum = [nan |-> TRUE, val |-> 0]
  /\ env = DefaultEnv
  /\ toasts = <<>>
  /\ mainWindowClosed = FALSE
  /\ scriptRuns = 0
  /\ script = NoScript
  /\ events = <<>>
  /\ winPos = StartPos
  /\ mouse = DefaultEnv.mouse0
  /\ outcome = [kind |-> "none", text |-> <<>>]
  /\ jxa = NoJxa

(* the user runs one of the commands with an argument *)
Launch ==
  /\ pc = "idle"
  /\ \E v \in Variants, a \in Args :
       \E e \in {x \in EnvOf(v) : EnvOk(x)} :
         /\ variant' = v
         /\ arg' = a
         /\ env' = e
         /\ mouse' = e.mouse0
  /\ pc' = "validate"
  /\ UNCHANGED <<desktopNum, toasts, mainWindowClosed, scriptRuns, script, events, winPos,
                 outcome, jxa>>

(* parseInt and the isNaN / < 1 test *)
Validate ==
  /\ pc = "validate"
  /\ desktopNum' = parseInt(arg)
  /\ IF InvalidNumber(desktopNum')
     THEN /\ toasts' = Append(toasts, InvalidToast(variant))
          /\ pc' = "done"
     ELSE /\ toasts' = toasts
          /\ pc' = IF ClosesMainWindow(variant) THEN "close" ELSE "progress"
  /\ UNCHANGED <<variant, arg, env, mainWindowClosed, scriptRuns, script, events, winPos,
                 mouse, outcome, jxa>>

(* the command goes on without the Raycast window having been closed *)
CloseMainWindowSkipped ==
  /\ pc = "close"
  /\ mainWindowClosed' = mainWindowClosed
  /\ pc' = "progress"
  /\ UNCHANGED <<variant, arg, desktopNum, env, toasts, scriptRuns, script, events, winPos,
                 mouse, outcome, jxa>>

CloseMainWindow ==
  /\ pc = "close"
  /\ mainWindowClosed' = TRUE
  /\ pc' = "progress"
  /\ UNCHANGED <<variant, arg, desktopNum, env, toasts, scriptRuns, script, events, winPos,
                 mouse, outcome, jxa>>

(* the Animated toast, then the script template is filled in *)
ShowProgress ==
  /\ pc = "progress"
  /\ toasts' = IF ShowsProgress(variant)
               THEN Append(toasts, ProgressToast(variant, desktopNum.val))
               ELSE toasts
  /\ script' = BuildScript(variant, desktopNum.val)
  /\ IF variant = "missionControl"
     THEN pc' = "jxa" /\ jxa' = [jxa EXCEPT !.step = "start"]
     ELSE pc' = "run" /\ jxa' = jxa
  /\ UNCHANGED <<variant, arg, desktopNum, env, mainWindowClosed, scriptRuns, events, winPos,
                 mouse, outcome>>

(* the AppleScript runs to its return *)
RunScript ==
  /\ pc = "run"
  /\ LET s == Script(variant, script, env)
     IN /\ events' = events \o s.events
        /\ winPos' = ApplyEvents(winPos, s.events)
        /\ outcome' = [kind |-> "returned", text |-> Output(variant, s.result)]
  /\ scriptRuns' = scriptRuns + 1
  /\ pc' = "handle"
  /\ UNCHANGED <<variant, arg, desktopNum, env, toasts, mainWindowClosed, script, mouse, jxa>>

(* osascript exits with an error or is killed by the timeout, part-way; a   *)
(* missing permission stops it at its first event                           *)
ScriptFails ==
  /\ pc = "run"
  /\ \E f \in Faults :
     \E pre \in (IF f \in {"notAuthorized", "assistive"} THEN {<<>>}
                 ELSE Prefixes(Script(variant, script, env).events)) :
       /\ events' = events \o pre
       /\ winPos' = ApplyEvents(winPos, pre)
       /\ outcome' = [kind |-> "threw", text |-> ErrorText(f)]
  /\ scriptRuns' = scriptRuns + 1
  /\ pc' = "handle"
  /\ UNCHANGED <<variant, arg, desktopNum, env, toasts, mainWindowClosed, script, mouse, jxa>>

(* ---- the JXA script of the Mission Control variant, step by step ----- *)

JxaVars == <<variant, arg, desktopNum, env, toasts, mainWindowClosed, script, winPos>>

JxaThrow(msg) == [jxa EXCEPT !.step = "catch", !.error = msg]

(* lines 600-616: the frontmost window is checked, its title and the cursor *)
(* position are stored                                                      *)
JxaStart ==
  /\ pc = "jxa" /\ jxa.step = "start"
  /\ scriptRuns' = scriptRuns + 1
  /\ jxa' = IF ~env.hasApp THEN JxaThrow(<<"No active application found">>)
            ELSE IF ~env.hasWindow THEN JxaThrow(<<"No active window", " found">>)
            ELSE [jxa EXCEPT !.step = "launch", !.restoreCursor = CursorPosition(mouse, env)]
  /\ UNCHANGED <<pc, events, mouse, outcome>>
  /\ UNCHANGED JxaVars

(* lines 618-620 *)
JxaLaunch ==
  /\ pc = "jxa" /\ jxa.step = "launch"
  /\ events' = Append(events, Click("Mission Control"))
  /\ jxa' = [jxa EXCEPT !.step = "desktop"]
  /\ UNCHANGED <<pc, scriptRuns, mouse, outcome>>
  /\ UNCHANGED JxaVars

(* DesktopBrokerPosition, lines 563-582: the cursor is jiggled and moved    *)
(* back to Cursor.position, then the button "Desktop n" is looked up        *)
JxaDesktopBrokerPosition ==
  /\ pc = "jxa" /\ jxa.step = "desktop"
  /\ LET restore == CursorPosition(mouse, env)
         t == script.literal
     IN /\ events' = events \o <<MouseEvent("move", Point(10, 10)),
                                 MouseEvent("move", Point(20, 10)),
                                 MouseEvent("move", restore)>>
        /\ mouse' = PostMouseEvent(restore, env)
        /\ jxa' = IF script.number <= env.desktops
                  THEN [jxa EXCEPT !.step = "window",
                                   !.desktop = DesktopButtonPosition(script.number)]
                  ELSE JxaThrow(<<"Desktop ", t, " ", "not found", ". Please ensure you have ",
                                  t, " or more virtual desktops configured in Mission Control.">>)
  /\ UNCHANGED <<pc, scriptRuns, outcome>>
  /\ UNCHANGED JxaVars

(* the script going on to the drag without the position of the thumbnail *)
JxaWindowBrokerPositionSkipped ==
  /\ pc = "jxa" /\ jxa.step = "window"
  /\ jxa' = [jxa EXCEPT !.step = "approach"]
  /\ UNCHANGED <<pc, scriptRuns, events, mouse, outcome>>
  /\ UNCHANGED JxaVars

(* WindowBrokerPosition, lines 585-597 *)
JxaWindowBrokerPosition ==
  /\ pc = "jxa" /\ jxa.step = "window"
  /\ jxa' = IF env.thumbnail
            THEN [jxa EXCEPT !.step = "approach", !.window = ThumbnailPosition]
            ELSE JxaThrow(<<"Window \"", "windowTitle", "\" ", "not found",
                            " in Mission Control.">>)
  /\ UNCHANGED <<pc, scriptRuns, events, mouse, outcome>>
  /\ UNCHANGED JxaVars

(* lines 626-634 *)
JxaApproach ==
  /\ pc = "jxa" /\ jxa.step = "approach"
  /\ LET w == jxa.window
     IN /\ events' = events \o <<MouseEvent("move", Point(10, 10)),
                                 MouseEvent("move", Point(w.x + 30, w.y + 30)),
                                 MouseEvent("move", Point(w.x + 40, w.y + 40)),
                                 MouseEvent("move", Point(w.x + 30, w.y + 30))>>
        /\ mouse' = PostMouseEvent(Point(w.x + 30, w.y + 30), env)
  /\ jxa' = [jxa EXCEPT !.step = "drag"]
  /\ UNCHANGED <<pc, scriptRuns, outcome>>
  /\ UNCHANGED JxaVars

(* Cursor.drag, lines 636-638 *)
JxaDrag ==
  /\ pc = "jxa" /\ jxa.step = "drag"
  /\ LET from == Point(jxa.window.x + 30, jxa.window.y + 30)
         to == Point(jxa.desktop.x + 10, jxa.desktop.y + 10)
     IN /\ events' = events \o <<MouseEvent("down", from), MouseEvent("drag", to),
                                 MouseEvent("up", to)>>
        /\ mouse' = PostMouseEvent(to, env)
  /\ jxa' = [jxa EXCEPT !.step = "click"]
  /\ UNCHANGED <<pc, scriptRuns, outcome>>
  /\ UNCHANGED JxaVars

(* lines 640-641 *)
JxaClick ==
  /\ pc = "jxa" /\ jxa.step = "click"
  /\ LET to == Point(jxa.desktop.x + 10, jxa.desktop.y + 10)
     IN /\ events' = events \o <<MouseEvent("down", to), MouseEvent("up", to)>>
        /\ mouse' = PostMouseEvent(to, env)
  /\ jxa' = [jxa EXCEPT !.step = "restore"]
  /\ UNCHANGED <<pc, scriptRuns, outcome>>
  /\ UNCHANGED JxaVars

(* lines 643-646: Cursor.move(restoreCursor); return 'Success' *)
JxaRestore ==
  /\ pc = "jxa" /\ jxa.step = "restore"
  /\ events' = Append(events, MouseEvent("move", jxa.restoreCursor))
  /\ mouse' = PostMouseEvent(jxa.restoreCursor, env)
  /\ jxa' = [jxa EXCEPT !.step = "returned"]
  /\ outcome' = [kind |-> "returned", text |-> <<"Success">>]
  /\ pc' = "handle"
  /\ UNCHANGED scriptRuns
  /\ UNCHANGED JxaVars

(* lines 647-654: Escape is sent and the error is thrown again; osascript   *)
(* exits with it and execFileSync throws                                    *)
JxaCatch ==
  /\ pc = "jxa" /\ jxa.step = "catch"
  /\ events' = Append(events, Escape)
  /\ jxa' = [jxa EXCEPT !.step = "threw"]
  /\ outcome' = [kind |-> "threw",
                 text |-> <<"Command failed: osascript -l JavaScript ", "tmpFile", "\n",
                            "execution error: Error: ">> \o jxa.error \o <<" (-2700)">>]
  /\ pc' = "handle"
  /\ UNCHANGED <<scriptRuns, mouse>>
  /\ UNCHANGED JxaVars

(* osascript is killed by the timeout of execFileSync, or fails outside the *)
(* script's own try block, wherever the script is                           *)
JxaKilled ==
  /\ pc = "jxa"
  /\ \E f \in {"other", "timeout"} : outcome' = [kind |-> "threw", text |-> ErrorText(f)]
  /\ scriptRuns' = IF jxa.step = "start" THEN scriptRuns + 1 ELSE scriptRuns
  /\ jxa' = [jxa EXCEPT !.step = "killed"]
  /\ pc' = "handle"
  /\ UNCHANGED <<events, mouse>>
  /\ UNCHANGED JxaVars

(* a catch block that shows nothing *)
HandleResultSilentCatch ==
  /\ pc = "handle"
  /\ toasts' = IF outcome.kind = "returned"
               THEN Append(toasts, ResultToast(variant, desktopNum.val, outcome.text))
               ELSE toasts
  /\ pc' = "done"
  /\ UNCHANGED <<variant, arg, desktopNum, env, mainWindowClosed, scriptRuns, script, events,
                 winPos, mouse, outcome, jxa>>

(* the terminal toast: of the result handling, or of the catch block *)
HandleResult ==
  /\ pc = "handle"
  /\ toasts' = Append(toasts,
                      IF outcome.kind = "returned"
                      THEN ResultToast(variant, desktopNum.val, outcome.text)
                      ELSE CatchToast(variant, desktopNum.val, outcome.text))
  /\ pc' = "done"
  /\ UNCHANGED <<variant, arg, desktopNum, env, mainWindowClosed, scriptRuns, script, events,
                 winPos, mouse, outcome, jxa>>

Next ==
  \/ Launch
  \/ Validate
  \/ CloseMainWindow
  \/ ShowProgress
  \/ RunScript
  \/ ScriptFails
  \/ JxaStart
  \/ JxaLaunch
  \/ JxaDesktopBrokerPosition
  \/ JxaWindowBrokerPosition
  \/ JxaApproach
  \/ JxaDrag
  \/ JxaClick
  \/ JxaRestore
  \/ JxaCatch
  \/ JxaKilled
  \/ HandleResult

Spec == Init /\ [][Next]_vars

(* ---------------- the result handling, over any output ----------------- *)
(* The result handling of a command as a function of what osascript        *)
(* printed: the command stands before its script run, the run returns any   *)
(* output of a bounded alphabet, and the result handling acts on it.        *)

MaxOutputLen == 2

OutputTokens == {"success", "SUCCESS", "ERROR", "|", "Success:", "Error:", "x"}

RECURSIVE OutputsUpTo(_)
OutputsUpTo(n) ==
  IF n = 0 THEN {<<>>}
  ELSE LET shorter == OutputsUpTo(n - 1)
       IN shorter \cup {Append(s, c) : s \in {t \in shorter : Len(t) = n - 1},
                                       c \in OutputTokens}

Outputs == OutputsUpTo(MaxOutputLen)

(* the variants whose result handling reads the output of the script *)
OutputReadingVariants == Variants \ {"missionControl"}

HandlerInit ==
  /\ pc = "run"
  /\ variant \in OutputReadingVariants
  /\ arg \in {<<"1">>, <<"2">>}
  /\ desktopNum = parseInt(arg)
  /\ env = DefaultEnv
  /\ toasts = IF ShowsProgress(variant)
              THEN <<ProgressToast(variant, desktopNum.val)>> ELSE <<>>
  /\ mainWindowClosed = ClosesMainWindow(variant)
  /\ scriptRuns = 0
  /\ script = BuildScript(variant, desktopNum.val)
  /\ events = <<>>
  /\ winPos = StartPos
  /\ mouse = DefaultEnv.mouse0
  /\ outcome = [kind |-> "none", text |-> <<>>]
  /\ jxa = NoJxa

(* the script run returns with some output *)
ScriptReturns ==
  /\ pc = "run"
  /\ \E o \in Outputs : outcome' = [kind |-> "returned", text |-> Output(variant, o)]
  /\ scriptRuns' = scriptRuns + 1
  /\ pc' = "handle"
  /\ UNCHANGED <<variant, arg, desktopNum, env, toasts, mainWindowClosed, script, events,
                 winPos, mouse, jxa>>

HandlerNext ==
  \/ ScriptReturns
  \/ HandleResult

HandlerSpec == HandlerInit /\ [][HandlerNext]_vars

(* --------------- the Control+arrow script, over many desktops ---------- *)
(* The Control+arrow command with an accepted argument stands before its   *)
(* script run, on a Mac with up to MaxSpaces desktops, the front window on  *)
(* any of them; the script runs and the result handling acts.              *)

MaxSpaces == 12

ArrowEnvs ==
  {[DefaultEnv EXCEPT !.hasWindow = hw, !.desktops = k, !.current = c] :
     hw \in BOOLEAN, k \in 1..MaxSpaces, c \in 1..MaxSpaces}

ArrowInit ==
  /\ pc = "run"
  /\ variant = "ctrlArrow"
  /\ arg \in {a \in Args : ~InvalidNumber(parseInt(a))}
  /\ desktopNum = parseInt(arg)
  /\ env \in {e \in ArrowEnvs : EnvOk(e)}
  /\ toasts = <<ProgressToast(variant, desktopNum.val)>>
  /\ mainWindowClosed = TRUE
  /\ scriptRuns = 0
  /\ script = BuildScript(variant, desktopNum.val)
  /\ events = <<>>
  /\ winPos = StartPos
  /\ mouse = DefaultEnv.mouse0
  /\ outcome = [kind |-> "none", text |-> <<>>]
  /\ jxa = NoJxa

ArrowNext ==
  \/ RunScript
  \/ HandleResult

ArrowSpec == ArrowInit /\ [][ArrowNext]_vars

(* ============================== claims ================================ *)

Last(q) == q[Len(q)]

Validated == pc \notin {"idle", "validate"}

Accepted == Validated /\ ~desktopNum.nan /\ desktopNum.val >= 1

Shown(style) == \E i \in 1..Len(toasts) : toasts[i].style = style

TerminalCount == Cardinality({i \in 1..Len(toasts) : toasts[i].style \in {"Success", "Failure"}})

(* the automation ran to its own end: it returned, or threw its own error *)
ScriptCompleted ==
  IF variant = "missionControl" THEN jxa.step \in {"returned", "threw"}
  ELSE outcome.kind = "returned"

(* no event that moves a window: at most the Escape key was sent *)
NothingMoved == winPos = StartPos /\ \A i \in 1..Len(events) : events[i] = Escape

(* C1: an argument whose parseInt is NaN or below 1 gets exactly one        *)
(* Failure toast titled "Invalid Desktop Number" ("Invalid Display Number"  *)
(* in move-to-display) and the command ends: the Raycast window is not      *)
(* closed, no progress toast is shown and no script is run.                 *)
C1_InvalidRejected ==
  LET n == parseInt(arg)
  IN (Validated /\ (n.nan \/ n.val < 1)) =>
       /\ pc = "done"
       /\ Len(toasts) = 1
       /\ toasts[1].style = "Failure"
       /\ toasts[1].title = (IF variant = "display" THEN "Invalid Display Number"
                             ELSE "Invalid Desktop Number")
       /\ ~mainWindowClosed
       /\ scriptRuns = 0
       /\ events = <<>>

C1_Witness ==
  /\ pc = "done" /\ variant = "display" /\ arg = <<"-", "1">>
  /\ Len(toasts) = 1 /\ toasts[1].title = "Invalid Display Number"

(* C2: for an accepted argument the command never stops before its end     *)
(* (every step before the result handling has a successor, and the result   *)
(* handling, whose only guard is its position, gets a returned string or an *)
(* error), and at its end exactly one terminal toast (Success or Failure)   *)
(* was shown and it is the last toast, also when the script failed or was   *)
(* killed by the timeout; the Animated toast is never the last one.         *)
C2_OneTerminalToast ==
  /\ pc \notin {"handle", "done"} => ENABLED Next
  /\ pc = "handle" => outcome.kind \in {"returned", "threw"}
  /\ Accepted => TerminalCount <= 1
  /\ (Accepted /\ pc = "done") =>
       /\ TerminalCount = 1
       /\ Last(toasts).style \in {"Success", "Failure"}

C2_Witness ==
  /\ pc = "done" /\ Accepted /\ variant = "menu"
  /\ outcome = [kind |-> "threw", text |-> ErrorText("timeout")]
  /\ Len(toasts) = 2 /\ toasts[1].style = "Animated" /\ toasts[2].style = "Failure"

(* whether a window whose top-left corner is at p (System Events            *)
(* coordinates) is on the screen with NSScreen frame f                      *)
WindowOnScreen(p, f, primary) ==
  LET top == primary.h - (f.y + f.h)
  IN p.x >= f.x /\ p.x < f.x + f.w /\ p.y >= top /\ p.y < top + f.h

(* C3 (as claimed): in move-to-display, for 1 <= N <= screenCount and a     *)
(* frontmost application with a window (that can be moved), the window is   *)
(* moved onto the N-th screen and the Success toast "Successfully moved to  *)
(* Display N" ends the command.                                             *)
C3_Original ==
  (/\ variant = "display" /\ pc = "done" /\ Accepted
   /\ desktopNum.val <= Len(env.screens)
   /\ env.hasWindow /\ env.movable /\ ScriptCompleted) =>
     /\ WindowOnScreen(winPos, env.screens[desktopNum.val], env.screens[1])
     /\ Last(toasts) = Toast("Success", "Window Moved",
                             <<"Successfully moved to Display ", Str(desktopNum.val)>>)

(* C4: in move-to-display, for N greater than the number of screens the     *)
(* window stays where it was, the command ends with the Failure toast       *)
(* "Failed to Move Window" and never shows Success; when the script ran to  *)
(* its return the message is "Display N not found. Available displays: 1 to *)
(* screenCount".                                                            *)
C4_DisplayNotFound ==
  (/\ variant = "display" /\ pc = "done" /\ Accepted
   /\ desktopNum.val > Len(env.screens)) =>
     /\ winPos = StartPos
     /\ events = <<>>
     /\ ~Shown("Success")
     /\ Last(toasts).style = "Failure"
     /\ Last(toasts).title = "Failed to Move Window"
     /\ ScriptCompleted =>
          Last(toasts).message = <<"Display ", Str(desktopNum.val),
                                   " not found. Available displays: 1 to ",
                                   Str(Len(env.screens))>>

C4_Witness ==
  /\ variant = "display" /\ pc = "done" /\ desktopNum = [nan |-> FALSE, val |-> 2]
  /\ Len(env.screens) = 1 /\ ScriptCompleted
  /\ Last(toasts).title = "Failed to Move Window"

(* C5 (as claimed): in every desktop variant, when desktop N does not exist *)
(* (N exceeds the number of desktops) the command ends with a Failure toast *)
(* and never shows the Success toast.                                       *)
C5_Original ==
  (/\ variant \in DesktopVariants /\ pc = "done" /\ Accepted
   /\ desktopNum.val > env.desktops
   /\ env.hasApp /\ env.hasWindow /\ ScriptCompleted) =>
     /\ Last(toasts).style = "Failure"
     /\ ~Shown("Success")

SaysNoWindow(t) ==
  \/ t.title = "No Window Found"
  \/ \E i \in 1..Len(t.message) :
       t.message[i] \in {"No active window found in ", "No active window found",
                         "No active window"}

(* C6 (as claimed): in every variant, when the frontmost application has no *)
(* window and the number is valid, the command ends with a Failure toast    *)
(* that says no window was found, shows no Success toast and moves nothing. *)
C6_Original ==
  (/\ pc = "done" /\ Accepted
   /\ env.hasApp /\ ~env.hasWindow /\ ScriptCompleted) =>
     /\ Last(toasts).style = "Failure"
     /\ SaysNoWindow(Last(toasts))
     /\ ~Shown("Success")
     /\ NothingMoved

(* C6 (amended): the same, in move-to-display only for N not above the      *)
(* number of screens (a larger N is reported as "Display N not found",      *)
(* whether or not there is a window).                                       *)
C6_NoWindow ==
  (/\ pc = "done" /\ Accepted
   /\ env.hasApp /\ ~env.hasWindow /\ ScriptCompleted
   /\ (variant = "display" => desktopNum.val <= Len(env.screens))) =>
     /\ Last(toasts).style = "Failure"
     /\ SaysNoWindow(Last(toasts))
     /\ ~Shown("Success")
     /\ NothingMoved

C6_Witness ==
  /\ pc = "done" /\ variant = "ctrlArrow" /\ Accepted /\ ~env.hasWindow
  /\ ScriptCompleted /\ Last(toasts).title = "No Window Found"

(* the whole string is the decimal representation of a positive integer *)
IsPositiveDecimal(s) ==
  /\ s # <<>>
  /\ \A i \in 1..Len(s) : s[i] \in Digits
  /\ DecValue(s, 0) >= 1

(* C7 (as claimed): the automation is run only for an argument that, white  *)
(* space around it aside, is as a whole the decimal representation of a     *)
(* positive integer; every other argument gets the "Invalid ... Number"     *)
(* toast.                                                                   *)
C7_Original ==
  /\ scriptRuns > 0 => IsPositiveDecimal(Trim(arg))
  /\ (pc = "done" /\ ~IsPositiveDecimal(Trim(arg))) =>
       /\ Len(toasts) = 1
       /\ toasts[1].title \in {"Invalid Desktop Number", "Invalid Display Number"}

(* the Window menu approach of the fallback variant cannot work: there is   *)
(* no Window menu, or it has no "Move to" submenu                           *)
MenuApproachFails(e) ==
  ~WindowMenu(e).exists \/ "Move to" \notin WindowMenu(e).items

(* C8 (as claimed): in the fallback variant, when the Window menu approach  *)
(* fails, the keyboard shortcut (Control + number) is sent before any error *)
(* is reported.                                                             *)
C8_Original ==
  (/\ variant = "menuFallback" /\ pc = "done" /\ Accepted
   /\ env.hasWindow /\ MenuApproachFails(env) /\ ScriptCompleted
   /\ Last(toasts).style = "Failure") =>
     \E i \in 1..Len(events) :
       events[i].type = "key" /\ events[i].mods = {"control"}

(* C9 (as claimed): for N in 1..9 the key code interpolated for the         *)
(* fallback is the key code of the digit key N, the N-th entry of keyCodes. *)
C9_Original ==
  (/\ variant = "menuFallback" /\ pc \in {"run", "handle", "done"} /\ Accepted
   /\ desktopNum.val \in 1..9) =>
     script.fallbackKey = keyCodes[desktopNum.val]

(* C10 (as claimed): whenever the Mission Control script ends, by its       *)
(* return or by its own error, the cursor is where it was when the script   *)
(* started (taken here for a start position in whole points).               *)
C10_Original ==
  (/\ variant = "missionControl" /\ ScriptCompleted
   /\ env.mouse0.fx = 0 /\ env.mouse0.fy = 0) =>
     mouse = env.mouse0

(* the events of a Mission Control run that returned, in the order of the   *)
(* script: launch, the jiggle of DesktopBrokerPosition, the approach of the *)
(* thumbnail, the drag, the switching click, the restoring move             *)
SuccessfulDragEvents(n, restore) ==
  LET d == DesktopButtonPosition(n)
      w == ThumbnailPosition
      from == Point(w.x + 30, w.y + 30)
      to == Point(d.x + 10, d.y + 10)
  IN << Click("Mission Control"),
        MouseEvent("move", Point(10, 10)), MouseEvent("move", Point(20, 10)),
        MouseEvent("move", restore),
        MouseEvent("move", Point(10, 10)), MouseEvent("move", from),
        MouseEvent("move", Point(w.x + 40, w.y + 40)), MouseEvent("move", from),
        MouseEvent("down", from), MouseEvent("drag", to), MouseEvent("up", to),
        MouseEvent("down", to), MouseEvent("up", to),
        MouseEvent("move", restore) >>

(* C11: in the Mission Control variant no mouse event is posted before the  *)
(* cursor position was recorded and Mission Control was launched; the drag  *)
(* happens only after the desktop button and the thumbnail were both        *)
(* located, and goes from the thumbnail to the button; the switching click  *)
(* (a press on the desktop button) happens only after the drag; and a run   *)
(* that returned Success performed exactly: launch, locate, approach, drag, *)
(* click, restore, in this order.                                           *)
C11_StepOrder ==
  variant = "missionControl" =>
    LET to == Point(DesktopButtonPosition(script.number).x + 10,
                    DesktopButtonPosition(script.number).y + 10)
        from == Point(ThumbnailPosition.x + 30, ThumbnailPosition.y + 30)
        restore == CursorPosition(env.mouse0, env)
    IN /\ \A i \in 1..Len(events) :
            events[i].type \in {"move", "down", "drag", "up"} =>
              /\ jxa.restoreCursor = restore
              /\ i > 1 /\ events[1] = Click("Mission Control")
       /\ \A i \in 1..Len(events) :
            events[i].type = "drag" =>
              /\ script.number <= env.desktops /\ env.thumbnail
              /\ jxa.desktop = DesktopButtonPosition(script.number)
              /\ jxa.window = ThumbnailPosition
              /\ events[i] = MouseEvent("drag", to)
              /\ i > 1 /\ events[i - 1] = MouseEvent("down", from)
       /\ \A i \in 1..Len(events) :
            events[i] = MouseEvent("down", to) =>
              \E j \in 1..(i - 1) : events[j].type = "drag"
       /\ jxa.step = "returned" =>
            /\ events = SuccessfulDragEvents(script.number, restore)
            /\ outcome = [kind |-> "returned", text |-> <<"Success">>]

C11_Witness ==
  /\ variant = "missionControl" /\ pc = "done" /\ jxa.step = "returned"
  /\ Len(events) = 14 /\ events[10].type = "drag"
  /\ Last(toasts).style = "Success"

(* the desktop variants whose catch block classifies the error it caught *)
ClassifyingVariants == ThreeWayVariants \cup {"menu", "menuSimple"}

PermissionPhrases == {"accessibility", "not authorized", "not allowed assistive"}

(* the toast tells the user to give Raycast the Accessibility permission *)
AsksForAccessibility(t) ==
  /\ t.style = "Failure"
  /\ t.message # <<>>
  /\ t.message[1] \in {"Accessibility permission required.",
                        "Raycast needs Accessibility permission to move windows."}

(* C12 (as claimed): in the variants that classify errors, when running the *)
(* automation fails with an error whose text contains, in any case,         *)
(* "accessibility", "not authorized" or "not allowed assistive", the        *)
(* terminal toast asks for the Accessibility permission, whatever else the  *)
(* text contains.                                                           *)
C12_Original ==
  (/\ variant \in ClassifyingVariants /\ pc = "done" /\ outcome.kind = "threw"
   /\ \E ph \in PermissionPhrases : Includes(ToLowerCase(outcome.text), ph)) =>
     AsksForAccessibility(Last(toasts))

(* the variants whose result handling compares the output with sentinels *)
SentinelVariants ==
  {"menu", "menuSimple", "menuAssign", "dock", "ctrlOptNum", "ctrlArrow", "relative"}

(* the title of the toast of the last, catch-all branch of a variant's      *)
(* result handling (in menu and menuSimple: of the catch block that gets    *)
(* the thrown result)                                                       *)
CatchAllTitle(v) ==
  CASE v \in {"menu", "menuSimple", "dock", "relative"} -> "Move Failed"
    [] v = "menuAssign" -> "Unknown Error"
    [] v \in {"ctrlOptNum", "ctrlArrow"} -> "Move Failed - Setup Required"

(* C13 (as claimed): whatever sentinel the script of a sentinel-matching    *)
(* variant returned, the terminal toast is the one of a branch specific to  *)
(* that sentinel, never the one of the catch-all branch.                    *)
C13_Original ==
  (/\ variant \in SentinelVariants /\ pc = "done" /\ outcome.kind = "returned") =>
     Last(toasts).title # CatchAllTitle(variant)

DigitChar(d) ==
  CASE d = 0 -> "0" [] d = 1 -> "1" [] d = 2 -> "2" [] d = 3 -> "3" [] d = 4 -> "4"
    [] d = 5 -> "5" [] d = 6 -> "6" [] d = 7 -> "7" [] d = 8 -> "8" [] d = 9 -> "9"

(* the decimal digits of a natural number, without leading zeros *)
RECURSIVE DigitsOf(_)
DigitsOf(k) ==
  IF k < 10 THEN <<DigitChar(k)>> ELSE Append(DigitsOf(k \div 10), DigitChar(k % 10))

(* the largest number an argument of MaxArgLen characters can denote *)
RECURSIVE Pow10(_)
Pow10(k) == IF k = 0 THEN 1 ELSE 10 * Pow10(k - 1)

MaxNumber == Pow10(MaxArgLen) - 1

(* the text is made of digits only and denotes k *)
IsDecimalOf(text, k) == k >= 0 /\ text = Concat(DigitsOf(k))

(* the template has just been filled in and the script is about to run *)
ScriptBuilt == Accepted /\ (pc = "run" \/ (pc = "jxa" /\ jxa.step = "start"))

AnimatedCount == Cardinality({i \in 1..Len(toasts) : toasts[i].style = "Animated"})

(* C15: in a variant that closes the Raycast window, for valid input:       *)
(* closeMainWindow, then the Animated "Moving Window" toast, then the       *)
(* script, then the terminal toast, each once; the script never runs before *)
(* the window was closed and never runs a second time.                      *)
C15_CloseToastRunToast ==
  (ClosesMainWindow(variant) /\ Accepted) =>
    /\ scriptRuns <= 1 /\ AnimatedCount <= 1 /\ TerminalCount <= 1
    /\ AnimatedCount = 1 =>
         /\ mainWindowClosed
         /\ toasts[1] = ProgressToast(variant, desktopNum.val)
         /\ toasts[1].title = "Moving Window"
    /\ scriptRuns = 1 => mainWindowClosed /\ AnimatedCount = 1
    /\ pc = "run" => scriptRuns = 0 /\ toasts = <<ProgressToast(variant, desktopNum.val)>>
    /\ pc = "handle" => scriptRuns = 1 /\ toasts = <<ProgressToast(variant, desktopNum.val)>>
    /\ TerminalCount = 1 =>
         /\ scriptRuns = 1 /\ pc = "done" /\ Len(toasts) = 2
         /\ toasts[2].style \in {"Success", "Failure"}
    /\ pc = "done" => TerminalCount = 1

(* a failed run ended with its Failure toast, the script having run once *)
C15_Witness ==
  /\ ClosesMainWindow(variant) /\ Accepted /\ pc = "done"
  /\ outcome.kind = "threw" /\ scriptRuns = 1 /\ mainWindowClosed
  /\ Len(toasts) = 2 /\ toasts[1].style = "Animated" /\ toasts[2].style = "Failure"

(* the Window menu offers desktop n through one of the patterns the scripts *)
(* look for; "Assign To" counts where the variant looks for it              *)
OffersDesktop(v, n, e) ==
  LET m == WindowMenu(e)
      t == Str(n)
      In(items) == ("Desktop " \o t) \in Range(items) \/ t \in Range(items)
  IN \/ ("Move Window to Desktop " \o t) \in m.items
     \/ "Move to" \in m.items /\ In(m.moveTo)
     \/ v = "menuAssign" /\ "Assign To" \in m.items /\ In(m.assignTo)

MenuSuccess == IF variant = "menuFallback" THEN <<"Success:">> ELSE <<"success">>

DesktopNotFound ==
  \/ outcome.text \in {<<"error:desktop_not_in_menu">>, <<"error:menu_not_found">>}
  \/ variant = "menuFallback" /\ Includes(outcome.text, "Desktop ")
                               /\ Includes(outcome.text, "Error:")

MenuScriptReturned ==
  /\ variant \in MenuVariants /\ Accepted /\ pc \in {"handle", "done"}
  /\ outcome.kind = "returned" /\ env.hasWindow

(* C16 (as claimed): in the Window-menu variants the script returns success *)
(* whenever the Window menu offers desktop N through a recognised pattern,  *)
(* and returns a desktop-not-found error only when no pattern contains N.   *)
C16_Original ==
  MenuScriptReturned =>
    /\ OffersDesktop(variant, desktopNum.val, env) =>
          /\ SubSeq(outcome.text, 1, 1) = MenuSuccess
          /\ events # <<>> /\ Last(events).type = "click"
    /\ DesktopNotFound => ~OffersDesktop(variant, desktopNum.val, env)

(* move-to-display ended with its Success toast after the script returned *)
DisplayMoved ==
  /\ variant = "display" /\ Accepted /\ pc = "done"
  /\ outcome.kind = "returned" /\ Last(toasts).style = "Success"

(* C17: after a successful move-to-display the size of the window is        *)
(* unchanged (its position is the only thing the script set) and its        *)
(* position is (targetX + offsetX, targetY + offsetY), with offsetX 50 if    *)
(* windowWidth > targetWidth - 100 and 100 otherwise, and offsetY 50 if      *)
(* windowHeight > targetHeight - 100 and 100 otherwise.                      *)
C17_NewPosition ==
  DisplayMoved =>
    LET target == env.screens[desktopNum.val]
        offsetX == IF env.winSize.w > target.w - 100 THEN 50 ELSE 100
        offsetY == IF env.winSize.h > target.h - 100 THEN 50 ELSE 100
    IN /\ desktopNum.val <= Len(env.screens)
       /\ events = <<SetPosition(target.x + offsetX, target.y + offsetY)>>
       /\ winPos = Point(target.x + offsetX, target.y + offsetY)

(* a window larger than the target less 100 both ways: offsets 50 and 50 *)
C17_Witness ==
  /\ DisplayMoved /\ desktopNum.val = 2
  /\ env.winSize.w > env.screens[2].w - 100 /\ env.winSize.w <= env.screens[2].w
  /\ env.winSize.h > env.screens[2].h - 100
  /\ winPos = Point(env.screens[2].x + 50, env.screens[2].y + 50)

(* C18 (as claimed): after every successful move-to-display the window fits *)
(* on the target screen: newX >= targetX, newY >= targetY, newX +           *)
(* windowWidth <= targetX + targetWidth and newY + windowHeight <= targetY  *)
(* + targetHeight.                                                          *)
C18_Original ==
  DisplayMoved =>
    LET target == env.screens[desktopNum.val]
    IN /\ winPos.x >= target.x
       /\ winPos.y >= target.y
       /\ winPos.x + env.winSize.w <= target.x + target.w
       /\ winPos.y + env.winSize.h <= target.y + target.h

(* the output reports success, in the form the variant's script uses *)
ReportedSuccess ==
  CASE variant = "display" -> SplitBar(outcome.text, <<>>)[1] = <<"SUCCESS">>
    [] variant = "menuFallback" -> outcome.text # <<>> /\ Head(outcome.text) = "Success:"
    [] OTHER -> outcome.text = <<"success">>

CtrlOptNumReturned ==
  /\ variant = "ctrlOptNum" /\ Accepted /\ pc \in {"handle", "done"}
  /\ outcome.kind = "returned" /\ env.hasWindow

(* C20: in the Control+Option+number variant (the front application having *)
(* a window), for N from 1 to 9 the script sends exactly one keystroke,     *)
(* Control+Option with the N-th entry of (18, 19, 20, 21, 23, 22, 26, 28,   *)
(* 25), and returns "success"; for N greater than 9 it sends no keystroke,  *)
(* returns "error:invalid_desktop" and the command shows the Failure toast  *)
(* "Desktop number must be between 1 and 9".                                *)
C20_OneKeystroke ==
  CtrlOptNumReturned =>
    LET N == desktopNum.val
        table == <<18, 19, 20, 21, 23, 22, 26, 28, 25>>
    IN /\ N <= 9 =>
            /\ events = <<[type |-> "key", name |-> "", code |-> table[N],
                           mods |-> {"control", "option"}, times |-> 1, x |-> 0, y |-> 0]>>
            /\ outcome.text = <<"success">>
       /\ N > 9 =>
            /\ events = <<>>
            /\ outcome.text = <<"error:invalid_desktop">>
            /\ pc = "done" =>
                  /\ Last(toasts).style = "Failure"
                  /\ Last(toasts).message = <<"Desktop number must be between 1 and 9">>
                  /\ ~Shown("Success")

(* a run with N above 9 ended in the toast, no key having been pressed *)
C20_Witness ==
  /\ CtrlOptNumReturned /\ pc = "done" /\ desktopNum.val > 9
  /\ events = <<>> /\ Last(toasts).title = "Invalid Desktop Number"

(* the Control+arrow script ran past its window check to a return *)
CtrlArrowReturned ==
  /\ variant = "ctrlArrow" /\ Accepted /\ pc \in {"handle", "done"}
  /\ outcome.kind = "returned" /\ env.hasWindow

(* C21 (as claimed): in the Control+arrow variant a desktop number greater  *)
(* than 9 is rejected: no keystroke is sent and the command shows the       *)
(* Failure toast "Invalid Desktop Number" / "Desktop number must be between *)
(* 1 and 9".                                                                *)
C21_Original ==
  (CtrlArrowReturned /\ desktopNum.val > 9) =>
    /\ events = <<>>
    /\ pc = "done" =>
          /\ Last(toasts).style = "Failure"
          /\ Last(toasts).title = "Invalid Desktop Number"
          /\ Last(toasts).message = <<"Desktop number must be between 1 and 9">>

(* "move window one space left / right" (key codes 123 and 124), pressed    *)
(* `times` times with the window on desktop d of K: a move left on Desktop  *)
(* 1 and a move right on Desktop K do nothing                               *)
MoveSpaces(d, K, code, times) ==
  CASE code = 123 -> IF d - times < 1 THEN 1 ELSE d - times
    [] code = 124 -> IF d + times > K THEN K ELSE d + times
    [] OTHER -> d

(* the desktop the window is on after the key events, from desktop d of K *)
RECURSIVE WindowDesktop(_, _, _)
WindowDesktop(d, K, evs) ==
  IF evs = <<>> THEN d
  ELSE WindowDesktop(IF Head(evs).type = "key"
                     THEN MoveSpaces(d, K, Head(evs).code, Head(evs).times) ELSE d,
                     K, Tail(evs))

(* C22 (as claimed): in the Control+arrow variant, for every starting       *)
(* desktop s and target N with 1 <= s, N <= K, the ten "move left"          *)
(* keystrokes leave the window on Desktop 1 and the following N-1 "move     *)
(* right" keystrokes leave it on Desktop N when the script returns          *)
(* "success".                                                               *)
C22_Original ==
  (/\ CtrlArrowReturned /\ outcome.text = <<"success">>
   /\ desktopNum.val <= env.desktops) =>
     /\ events # <<>>
     /\ WindowDesktop(env.current, env.desktops, <<events[1]>>) = 1
     /\ WindowDesktop(env.current, env.desktops, events) = desktopNum.val

(* the relative-move script ran past its window check to a return *)
RelativeReturned ==
  /\ variant = "relative" /\ Accepted /\ pc \in {"handle", "done"}
  /\ outcome.kind = "returned" /\ env.hasWindow

(* C23: in the relative-move variant (the front application having a        *)
(* window) the script sends exactly |N - c| keystrokes, all "move right"    *)
(* (key 124) when N > c, all "move left" (key 123) when N < c and none when *)
(* N = c, where c is the detected current desktop, 1 when detection fails;  *)
(* hence for 1 <= N <= K and a correctly detected c the window ends on      *)
(* Desktop N.                                                               *)
C23_RelativeMoves ==
  RelativeReturned =>
    LET N == desktopNum.val
        c == IF env.detect THEN env.current ELSE 1
        Pressed(code, times) ==
          <<[type |-> "key", name |-> "", code |-> code, mods |-> {"control", "shift"},
             times |-> times, x |-> 0, y |-> 0]>>
    IN /\ outcome.text = <<"success">>
       /\ N > c => events = Pressed(124, N - c)
       /\ N < c => events = Pressed(123, c - N)
       /\ N = c => events = <<>>
       /\ (env.detect /\ N <= env.desktops) =>
            WindowDesktop(env.current, env.desktops, events) = N

(* from Desktop 3 to Desktop 1: two moves left, and the Success toast *)
C23_Witness ==
  /\ RelativeReturned /\ pc = "done" /\ env.detect
  /\ env.current = 3 /\ desktopNum.val = 1
  /\ Len(events) = 1 /\ events[1].code = 123 /\ events[1].times = 2
  /\ WindowDesktop(env.current, env.desktops, events) = 1
  /\ Last(toasts).style = "Success"

====
